---- MODULE Spec2Model ----
(***************************************************************************)
(* Authentication / authorization layer of the ToDo List API.              *)
(* State: the users and tasks tables, the wall clock, the bearer token a   *)
(* client holds, the last request with its response, and the last call of  *)
(* the token codec with its result.                                        *)
(* One action per HTTP operation; each handler is an operator computing    *)
(* the outcome (response and new table contents) of one request.           *)
(***************************************************************************)
EXTENDS Integers, Sequences, FiniteSets, TLC

VARIABLES users, tasks, now, ticks, held, last, codec, session, loop

vars == <<users, tasks, now, ticks, held, last, codec, session, loop>>

-----------------------------------------------------------------------------
(* Bounds and input domains *)

MaxTasks == 2
MaxTicks == 2
MaxCodecTime == 4
TicksPerSecond == 2
MaxInFlight == 2

Emails == {"alice@x", "bob@x"}
Passwords == {"password123", "wrongpass"}
Salts == {1, 2}
SkipInputs == {0, 1}
LimitInputs == {1, 100}

NoSub == "<no-sub>"
Null == "<null>"
NoOwner == 0
NoUser == [id |-> 0, email |-> NoSub, hashed_password |-> <<0, Null>>]

-----------------------------------------------------------------------------
(* Program constants *)

SECRET_KEY == "a_very_secret_key"
WrongKey == "another_key"
ACCESS_TOKEN_EXPIRE_MINUTES == 30

HTTP_200_OK == 200
HTTP_201_CREATED == 201
HTTP_204_NO_CONTENT == 204
HTTP_400_BAD_REQUEST == 400
HTTP_401_UNAUTHORIZED == 401
HTTP_404_NOT_FOUND == 404
HTTP_422_UNPROCESSABLE == 422

NoHeaders == {}
BearerHeader == {<<"WWW-Authenticate", "Bearer">>}

\* timedelta(minutes = m) in clock ticks
Minutes(m) == m * 60 * TicksPerSecond


-----------------------------------------------------------------------------
(* CredentialHasher: passlib bcrypt context *)

\* The bcrypt digest of a password under a salt; the salt is embedded.
Bcrypt(password, salt) == <<salt, password>>

\* pwd_context.hash with the fresh salt it drew.
\* Mutant: the hash of a password cut to its first eight characters.
get_password_hash_Truncated(password, salt) ==
    Bcrypt(IF password = "password123" THEN "password" ELSE password, salt)

get_password_hash(password, salt) == Bcrypt(password, salt)

\* Mutant: a verify that accepts any password.
verify_password_Always(plain_password, hashed_password) == TRUE

\* pwd_context.verify recomputes with the salt embedded in the stored hash.
verify_password(plain_password, hashed_password) ==
    Bcrypt(plain_password, hashed_password[1]) = hashed_password

-----------------------------------------------------------------------------
(* TokenCodec: python-jose *)

AbsentToken == [kind |-> "absent", key |-> Null, sub |-> NoSub, exp |-> 0]
GarbageToken == [kind |-> "garbage", key |-> Null, sub |-> NoSub, exp |-> 0]

\* jwt.encode: the exp datetime is serialised as whole seconds.
JwtEncode(sub, expire, key) ==
    [kind |-> "jwt", key |-> key, sub |-> sub, exp |-> expire \div TicksPerSecond]

\* Optional[timedelta]: None is the empty sequence, a timedelta of d ticks <<d>>.
None == <<>>
Timedelta(d) == <<d>>

\* Mutant: a default lifetime of half the configured minutes.
create_access_token_HalfDefault(sub, expires_delta, t) ==
    JwtEncode(sub,
              IF expires_delta # <<>> /\ expires_delta[1] # 0
              THEN t + expires_delta[1]
              ELSE t + ((ACCESS_TOKEN_EXPIRE_MINUTES \div 2) * 60 * TicksPerSecond),
              SECRET_KEY)

\* if expires_delta: None and a zero timedelta are both falsy.
Truthy(expires_delta) == expires_delta # None /\ expires_delta[1] # 0

\* create_access_token(data = {"sub": sub}, expires_delta) at clock t.
create_access_token(sub, expires_delta, t) ==
    LET expire == IF Truthy(expires_delta)
                  THEN t + expires_delta[1]
                  ELSE t + Minutes(ACCESS_TOKEN_EXPIRE_MINUTES)
    IN JwtEncode(sub, expire, SECRET_KEY)

\* Mutant: a token already expired in the second its exp names.
JwtDecode_ExpiredAtExp(token, key, t) ==
    IF token.kind # "jwt" THEN [ok |-> FALSE, err |-> "Malformed", sub |-> NoSub]
    ELSE IF token.key # key THEN [ok |-> FALSE, err |-> "BadSignature", sub |-> NoSub]
    ELSE IF token.exp <= (t \div TicksPerSecond)
         THEN [ok |-> FALSE, err |-> "Expired", sub |-> NoSub]
    ELSE [ok |-> TRUE, err |-> "", sub |-> token.sub]

\* jwt.decode: signature first, then exp against the clock in whole seconds;
\* a token is expired when exp < now.
JwtDecode(token, key, t) ==
    IF token.kind # "jwt" THEN [ok |-> FALSE, err |-> "Malformed", sub |-> NoSub]
    ELSE IF token.key # key THEN [ok |-> FALSE, err |-> "BadSignature", sub |-> NoSub]
    ELSE IF token.exp < (t \div TicksPerSecond)
         THEN [ok |-> FALSE, err |-> "Expired", sub |-> NoSub]
    ELSE [ok |-> TRUE, err |-> "", sub |-> token.sub]

-----------------------------------------------------------------------------
(* UserStore queries *)

Max(S) == CHOOSE x \in S : \A y \in S : y <= x

\* Integer primary key assigned by storage: one above the largest in use.
NextId(rows) == IF rows = {} THEN 1 ELSE Max({r.id : r \in rows}) + 1

\* Mutant: the lookup without its email condition.
UserByEmail_Any(email) ==
    IF users = {} THEN NoUser ELSE CHOOSE u \in users : TRUE

\* select(User).where(User.email == email) ... scalar_one_or_none()
UserByEmail(email) ==
    LET found == {u \in users : u.email = email}
    IN IF found = {} THEN NoUser ELSE CHOOSE u \in found : TRUE

-----------------------------------------------------------------------------
(* Responses *)

Response(status, detail, hdr) == [status |-> status, detail |-> detail, hdr |-> hdr]

\* oauth2_scheme with no Authorization: Bearer header
not_authenticated == Response(HTTP_401_UNAUTHORIZED, "Not authenticated", BearerHeader)

\* Mutant: the 401 without its WWW-Authenticate header.
credentials_exception_NoHeader ==
    Response(HTTP_401_UNAUTHORIZED, "Could not validate credentials", NoHeaders)

credentials_exception ==
    Response(HTTP_401_UNAUTHORIZED, "Could not validate credentials", BearerHeader)

login_exception ==
    Response(HTTP_401_UNAUTHORIZED, "Incorrect email or password", BearerHeader)

task_not_found == Response(HTTP_404_NOT_FOUND, "Task not found", NoHeaders)

email_registered == Response(HTTP_400_BAD_REQUEST, "Email already registered", NoHeaders)

validation_error == Response(HTTP_422_UNPROCESSABLE, "validation error", NoHeaders)

Success(status) == Response(status, "", NoHeaders)

-----------------------------------------------------------------------------
(* IdentityResolver *)

AuthFail(resp, why) == [ok |-> FALSE, user |-> NoUser, resp |-> resp, why |-> why]

\* Steps 1-3 of get_current_user at clock t: decode, then the sub claim.
token_data(token, t) ==
    LET payload == JwtDecode(token, SECRET_KEY, t) IN
    IF ~payload.ok THEN [ok |-> FALSE, err |-> payload.err, email |-> NoSub]
    ELSE IF payload.sub = NoSub
         THEN [ok |-> FALSE, err |-> "MissingSubject", email |-> NoSub]
    ELSE [ok |-> TRUE, err |-> "", email |-> payload.sub]

\* Mutant: an unknown subject answered with its own 404.
get_current_user_UserNotFound(token) ==
    IF token.kind = "absent" THEN AuthFail(not_authenticated, "Absent")
    ELSE LET data == token_data(token, now) IN
         IF ~data.ok THEN AuthFail(credentials_exception, data.err)
         ELSE LET user == UserByEmail(data.email) IN
              IF user = NoUser
              THEN AuthFail(Response(HTTP_404_NOT_FOUND, "User not found", NoHeaders),
                            "UnknownSubject")
              ELSE [ok |-> TRUE, user |-> user, resp |-> Success(HTTP_200_OK), why |-> ""]

get_current_user(token) ==
    IF token.kind = "absent" THEN AuthFail(not_authenticated, "Absent")
    ELSE LET data == token_data(token, now) IN
         IF ~data.ok THEN AuthFail(credentials_exception, data.err)
         ELSE LET user == UserByEmail(data.email) IN
              IF user = NoUser THEN AuthFail(credentials_exception, "UnknownSubject")
              ELSE [ok |-> TRUE, user |-> user, resp |-> Success(HTTP_200_OK), why |-> ""]

-----------------------------------------------------------------------------
(* Request bodies and the TaskCreate schema *)

\* JSON bodies a client may send: a function from the fields present to values.
Bodies ==
    { [title |-> "t1"],
      [title |-> "t1", description |-> Null],
      [title |-> "t2", description |-> "d1", owner_id |-> 1, completed |-> TRUE] }

\* Mutant: a TaskBase that also declares completed.
TaskCreateFields_WithCompleted == {"title", "description", "completed"}

\* Fields declared by TaskBase / TaskCreate; undeclared fields are ignored.
TaskCreateFields == {"title", "description"}

\* Mutant: a schema that keeps undeclared fields (extra = "allow").
TaskCreate_AllowExtra(body) == body

\* TaskCreate(**body): the fields the client set, among the declared ones.
TaskCreate(body) == [f \in (DOMAIN body) \cap TaskCreateFields |-> body[f]]

\* task_in.model_dump(): every declared field, defaults filled in.
model_dump(task_in) ==
    [f \in TaskCreateFields |->
        IF f \in DOMAIN task_in THEN task_in[f] ELSE Null]

\* Mutant: the dump without exclude_unset, defaults filled in.
model_dump_exclude_unset_Defaults(task_update) == model_dump(task_update)

\* task_update.model_dump(exclude_unset=True): only the fields that were set.
model_dump_exclude_unset(task_update) == task_update

\* SQLAlchemyTask(**data, owner_id = owner_id) once inserted with a fresh id;
\* completed takes the column default.
SQLAlchemyTask(data, owner_id) ==
    [id |-> NextId(tasks),
     title |-> data["title"],
     description |-> data["description"],
     completed |-> FALSE,
     owner_id |-> owner_id]

\* for key, value in update_data.items(): setattr(db_task, key, value)
SetAttrs(db_task, update_data) ==
    [f \in DOMAIN db_task |->
        IF f \in DOMAIN update_data THEN update_data[f] ELSE db_task[f]]

\* Mutant: the query without its owner_id condition.
TaskQuery_NoOwnerFilter(task_id, owner_id) ==
    {t \in tasks : t.id = task_id}

\* Mutant: a query that also matches rows without an owner.
TaskQuery_OrUnowned(task_id, owner_id) ==
    {t \in tasks : t.id = task_id /\ (t.owner_id = owner_id \/ t.owner_id = NoOwner)}

\* select(Task).where(Task.id == task_id, Task.owner_id == owner_id)
TaskQuery(task_id, owner_id) ==
    {t \in tasks : t.id = task_id /\ t.owner_id = owner_id}

\* select(Task).where(Task.owner_id == owner_id), in id order
RECURSIVE SortById(_)
SortById(rows) ==
    IF rows = {} THEN <<>>
    ELSE LET first == CHOOSE r \in rows : \A q \in rows : r.id <= q.id
         IN <<first>> \o SortById(rows \ {first})

\* Mutant: the listing without its owner_id condition.
OwnedTasks_All(owner_id) == SortById(tasks)

OwnedTasks(owner_id) == SortById({t \in tasks : t.owner_id = owner_id})

\* .offset(skip).limit(limit)
OffsetLimit(rows, skip, limit) ==
    SubSeq(rows, skip + 1, IF skip + limit < Len(rows) THEN skip + limit ELSE Len(rows))

\* Path(..., ge=1)
PathOk(task_id) == task_id >= 1

-----------------------------------------------------------------------------
(* Handlers: the outcome of one request in the current state *)

Outcome(resp, why, ran, uid, rows, newTasks, newUsers, token) ==
    [resp |-> resp, why |-> why, ran |-> ran, uid |-> uid, rows |-> rows,
     tasks |-> newTasks, users |-> newUsers, token |-> token,
     token_type |-> IF token = AbsentToken THEN "" ELSE "bearer"]

\* A request refused before or inside the handler: nothing is written.
Refused(resp, why, ran, uid) ==
    Outcome(resp, why, ran, uid, <<>>, tasks, users, AbsentToken)

\* Mutant: the handler without its check for an existing user.
register_user_NoCheck(email, password, salt) ==
    LET db_user == [id |-> NextId(users), email |-> email,
                    hashed_password |-> get_password_hash(password, salt)]
    IN Outcome(Success(HTTP_201_CREATED), "", TRUE, db_user.id, <<>>,
               tasks, users \cup {db_user}, AbsentToken)

register_user(email, password, salt) ==
    LET existing_user == UserByEmail(email) IN
    IF existing_user # NoUser
    THEN Refused(email_registered, "", TRUE, 0)
    ELSE LET db_user == [id |-> NextId(users), email |-> email,
                         hashed_password |-> get_password_hash(password, salt)]
         IN Outcome(Success(HTTP_201_CREATED), "", TRUE, db_user.id, <<>>,
                    tasks, users \cup {db_user}, AbsentToken)

\* Mutant: an unknown email answered with its own 404.
login_for_access_token_UserNotFound(username, password) ==
    LET user == UserByEmail(username) IN
    IF user = NoUser
    THEN Refused(Response(HTTP_404_NOT_FOUND, "User not found", NoHeaders),
                 "NoSuchUser", TRUE, 0)
    ELSE IF ~verify_password(password, user.hashed_password)
    THEN Refused(login_exception, "WrongPassword", TRUE, 0)
    ELSE Outcome(Success(HTTP_200_OK), "", TRUE, user.id, <<>>, tasks, users,
                 create_access_token(user.email, None, now))

login_for_access_token(username, password) ==
    LET user == UserByEmail(username) IN
    IF user = NoUser \/ ~verify_password(password, user.hashed_password)
    THEN Refused(login_exception,
                 IF user = NoUser THEN "NoSuchUser" ELSE "WrongPassword", TRUE, 0)
    ELSE Outcome(Success(HTTP_200_OK), "", TRUE, user.id, <<>>, tasks, users,
                 create_access_token(user.email, None, now))

\* Mutant: the handler without its Depends(get_current_user).
create_task_NoDepends(token, body) ==
    LET db_task == SQLAlchemyTask(model_dump(TaskCreate(body)), NoOwner)
    IN Outcome(Success(HTTP_201_CREATED), "", TRUE, 0,
               <<db_task>>, tasks \cup {db_task}, users, AbsentToken)

create_task(token, body) ==
    LET current_user == get_current_user(token) IN
    IF ~current_user.ok
    THEN Refused(current_user.resp, current_user.why, FALSE, 0)
    ELSE LET db_task == SQLAlchemyTask(model_dump(TaskCreate(body)),
                                       current_user.user.id)
         IN Outcome(Success(HTTP_201_CREATED), "", TRUE, current_user.user.id,
                    <<db_task>>, tasks \cup {db_task}, users, AbsentToken)

read_tasks(token, skip, limit) ==
    LET current_user == get_current_user(token) IN
    IF ~current_user.ok
    THEN Refused(current_user.resp, current_user.why, FALSE, 0)
    ELSE Outcome(Success(HTTP_200_OK), "", TRUE, current_user.user.id,
                 OffsetLimit(OwnedTasks(current_user.user.id), skip, limit),
                 tasks, users, AbsentToken)

read_task(token, task_id) ==
    LET current_user == get_current_user(token) IN
    IF ~current_user.ok
    THEN Refused(current_user.resp, current_user.why, FALSE, 0)
    ELSE IF ~PathOk(task_id)
    THEN Refused(validation_error, "", FALSE, current_user.user.id)
    ELSE LET found == TaskQuery(task_id, current_user.user.id) IN
         IF found = {}
         THEN Refused(task_not_found, "", TRUE, current_user.user.id)
         ELSE Outcome(Success(HTTP_200_OK), "", TRUE, current_user.user.id,
                      <<CHOOSE t \in found : TRUE>>, tasks, users, AbsentToken)

update_task(token, task_id, body) ==
    LET current_user == get_current_user(token) IN
    IF ~current_user.ok
    THEN Refused(current_user.resp, current_user.why, FALSE, 0)
    ELSE IF ~PathOk(task_id)
    THEN Refused(validation_error, "", FALSE, current_user.user.id)
    ELSE LET found == TaskQuery(task_id, current_user.user.id) IN
         IF found = {}
         THEN Refused(task_not_found, "", TRUE, current_user.user.id)
         ELSE LET db_task == CHOOSE t \in found : TRUE
                  update_data == model_dump_exclude_unset(TaskCreate(body))
                  updated == SetAttrs(db_task, update_data)
              IN Outcome(Success(HTTP_200_OK), "", TRUE, current_user.user.id,
                         <<updated>>, (tasks \ {db_task}) \cup {updated}, users,
                         AbsentToken)

\* Mutant: a delete that removes every task of the current user.
delete_task_AllOwned(token, task_id) ==
    LET current_user == get_current_user(token) IN
    IF ~current_user.ok
    THEN Refused(current_user.resp, current_user.why, FALSE, 0)
    ELSE IF ~PathOk(task_id)
    THEN Refused(validation_error, "", FALSE, current_user.user.id)
    ELSE LET found == TaskQuery(task_id, current_user.user.id) IN
         IF found = {}
         THEN Refused(task_not_found, "", TRUE, current_user.user.id)
         ELSE Outcome(Success(HTTP_204_NO_CONTENT), "", TRUE, current_user.user.id,
                      <<>>, {t \in tasks : t.owner_id # current_user.user.id},
                      users, AbsentToken)

delete_task(token, task_id) ==
    LET current_user == get_current_user(token) IN
    IF ~current_user.ok
    THEN Refused(current_user.resp, current_user.why, FALSE, 0)
    ELSE IF ~PathOk(task_id)
    THEN Refused(validation_error, "", FALSE, current_user.user.id)
    ELSE LET found == TaskQuery(task_id, current_user.user.id) IN
         IF found = {}
         THEN Refused(task_not_found, "", TRUE, current_user.user.id)
         ELSE LET db_task == CHOOSE t \in found : TRUE
              IN Outcome(Success(HTTP_204_NO_CONTENT), "", TRUE, current_user.user.id,
                         <<>>, tasks \ {db_task}, users, AbsentToken)

-----------------------------------------------------------------------------
(* Inputs *)

TaskIdInputs == 1 .. MaxTasks

\* A JWT built by hand rather than obtained from login.
HandMade(key, sub, exp) == [kind |-> "jwt", key |-> key, sub |-> sub, exp |-> exp]

\* exp one second in the past, and a default lifetime ahead.
PastExp == (now \div TicksPerSecond) - 1
FreshExp == (now + Minutes(ACCESS_TOKEN_EXPIRE_MINUTES)) \div TicksPerSecond

\* Tokens that may resolve: the one the client holds and a well-signed
\* unexpired JWT for either email.
GoodTokens ==
    {held.token} \cup {HandMade(SECRET_KEY, e, FreshExp) : e \in Emails}

\* Tokens that never resolve: none, a non-JWT string, and JWTs that are
\* expired, signed with another key, or without a subject.
BadTokens ==
    {AbsentToken, GarbageToken,
     HandMade(SECRET_KEY, "alice@x", PastExp),
     HandMade(WrongKey, "alice@x", FreshExp),
     HandMade(SECRET_KEY, NoSub, FreshExp)}

\* Tokens a client can present.
TokenInputs == GoodTokens \cup BadTokens

\* The other inputs tried with a token: all of them with a token that may
\* resolve, one of each with a token that never does.
IdsWith(token) == IF token \in BadTokens THEN {1} ELSE TaskIdInputs
BodiesWith(token) == IF token \in BadTokens THEN {[title |-> "t1", description |-> Null]} ELSE Bodies
SkipsWith(token) == IF token \in BadTokens THEN {0} ELSE SkipInputs
LimitsWith(token) == IF token \in BadTokens THEN {100} ELSE LimitInputs

-----------------------------------------------------------------------------
(* State machine *)

\* The client holds no token; otherwise the token, the id of the user it was
\* issued to and the clock reading at issuance.
NoHeld == [token |-> AbsentToken, uid |-> 0, at |-> 0]

\* No codec call yet.
NoCodec == [sub |-> NoSub, ttl |-> 0, at |-> 0, token |-> AbsentToken,
            decoded |-> FALSE, ok |-> FALSE, err |-> "", email |-> NoSub]

\* No exception is propagating.
NoException == "none"

\* The request a session is serving: the operation and its inputs.
NoRequest ==
    [op |-> "none", token |-> AbsentToken, task_id |-> 0,
     body |-> [title |-> "t1", description |-> Null],
     email |-> NoSub, password |-> Null, salt |-> 0]

\* No request has acquired a session yet.
NoSession ==
    [pc |-> "idle", req |-> NoRequest, open |-> FALSE, log |-> <<>>,
     dirty |-> FALSE, want |-> [users |-> {}, tasks |-> {}],
     before |-> [users |-> {}, tasks |-> {}],
     raised |-> NoException, calls |-> <<>>, todo |-> <<>>,
     resp |-> Success(HTTP_200_OK)]

\* Requests the server can have in flight at once, by slot.
Slots == 1 .. MaxInFlight

\* A slot with no request in it. A request in flight has its own session:
\* the calls made on it so far, whether a write is pending on it, the
\* exception that left its handler and the calls still to be awaited.
NoFlight ==
    [pc |-> "idle", op |-> "none", email |-> NoSub, password |-> Null,
     found |-> NoUser, status |-> 0, raised |-> NoException,
     log |-> <<>>, dirty |-> FALSE, todo |-> <<>>]

\* The event loop runs nothing and no request is in flight.
NoLoop == [busy |-> 0, reqs |-> [r \in Slots |-> NoFlight]]

Idle == [op |-> "none", task_id |-> 0, resp |-> Success(HTTP_200_OK), why |-> "",
         ran |-> FALSE, uid |-> 0, count |-> 0, token |-> AbsentToken,
         email |-> NoSub, password |-> Null]

\* A row written before owner_id existed: the migration leaves its owner NULL.
LegacyTask ==
    [id |-> 1, title |-> "t1", description |-> Null, completed |-> TRUE,
     owner_id |-> NoOwner]

Init ==
    /\ users = {}
    /\ tasks \in {{}, {LegacyTask}}
    /\ now = 0
    /\ ticks = 0
    /\ held = NoHeld
    /\ last = Idle
    /\ codec = NoCodec
    /\ session = NoSession
    /\ loop = NoLoop

\* The request completes: tables take the outcome's contents and the
\* response is recorded.
RespondTo(op, task_id, o, email, password) ==
    /\ users' = o.users
    /\ tasks' = o.tasks
    /\ last' = [op |-> op, task_id |-> IF o.ran THEN task_id ELSE 0, resp |-> o.resp, why |-> o.why,
                ran |-> o.ran, uid |-> o.uid, count |-> Len(o.rows),
                token |-> o.token, email |-> email, password |-> password]

\* The same for a request that carries no credentials in its body.
Respond(op, task_id, o) == RespondTo(op, task_id, o, NoSub, Null)

\* POST /users/ with a password from pws; the hasher draws a salt from salts.
RegisterWith(pws, salts) ==
    \E email \in Emails, password \in pws, salt \in salts :
        /\ RespondTo("register_user", 0, register_user(email, password, salt),
                     email, password)
        /\ UNCHANGED <<now, ticks, held, codec, session, loop>>

\* POST /token; the client keeps the token it is given when keep is TRUE,
\* remembering which user id the login was for.
LoginWith(keeps) ==
    \E username \in Emails, password \in Passwords, keep \in keeps :
        LET o == login_for_access_token(username, password) IN
        /\ RespondTo("login_for_access_token", 0, o, username, password)
        /\ held' = IF keep /\ o.token # AbsentToken
                   THEN [token |-> o.token, uid |-> o.uid, at |-> now]
                   ELSE held
        /\ UNCHANGED <<now, ticks, codec, session, loop>>

Register == RegisterWith({"password123"}, {1})

Login == LoginWith({FALSE})

CreateTask ==
    \E token \in TokenInputs :
        \E body \in BodiesWith(token) :
            /\ NextId(tasks) <= MaxTasks
            /\ Respond("create_task", NextId(tasks), create_task(token, body))
            /\ UNCHANGED <<now, ticks, held, codec, session, loop>>

ReadTasks ==
    \E token \in TokenInputs :
        \E skip \in SkipsWith(token), limit \in LimitsWith(token) :
            /\ Respond("read_tasks", 0, read_tasks(token, skip, limit))
            /\ UNCHANGED <<now, ticks, held, codec, session, loop>>

ReadTask ==
    \E token \in TokenInputs :
        \E task_id \in IdsWith(token) :
            /\ Respond("read_task", task_id, read_task(token, task_id))
            /\ UNCHANGED <<now, ticks, held, codec, session, loop>>

UpdateTask ==
    \E token \in TokenInputs :
        \E task_id \in IdsWith(token), body \in BodiesWith(token) :
            /\ Respond("update_task", task_id, update_task(token, task_id, body))
            /\ UNCHANGED <<now, ticks, held, codec, session, loop>>

DeleteTask ==
    \E token \in TokenInputs :
        \E task_id \in IdsWith(token) :
            /\ Respond("delete_task", task_id, delete_task(token, task_id))
            /\ UNCHANGED <<now, ticks, held, codec, session, loop>>

\* More time passes than nothing: a whole default token lifetime.
Tick ==
    /\ ticks < MaxTicks
    /\ now' = now + Minutes(ACCESS_TOKEN_EXPIRE_MINUTES)
    /\ ticks' = ticks + 1
    /\ last' = Idle
    /\ UNCHANGED <<users, tasks, held, codec, session, loop>>

Next ==
    \/ Register
    \/ Login
    \/ CreateTask
    \/ ReadTasks
    \/ ReadTask
    \/ UpdateTask
    \/ DeleteTask

\* The API with the clock standing still.
Spec == Init /\ [][Next]_vars

\* The API started on a migrated table: the row written before owner_id
\* existed is there from the start.
InitLegacy == Init /\ tasks = {LegacyTask}

SpecLegacy == InitLegacy /\ [][Next]_vars

-----------------------------------------------------------------------------
(* Accounts, logins and the clock: any password, any salt, kept tokens *)

RegisterAny == RegisterWith(Passwords, Salts)

LoginKeep == LoginWith(BOOLEAN)

NextAuth ==
    \/ RegisterAny
    \/ LoginKeep
    \/ ReadTasks
    \/ Tick

SpecAuth == Init /\ [][NextAuth]_vars

-----------------------------------------------------------------------------
(* The token codec on its own: encode, let time pass, decode *)

SubjectInputs == Emails \cup {""}
TtlInputs == {-1, 0, 1, 2, 3}

\* create_access_token(data = {"sub": sub}, expires_delta = ttl)
Encode ==
    \E sub \in SubjectInputs, ttl \in TtlInputs :
        /\ codec' = [sub |-> sub, ttl |-> ttl, at |-> now,
                     token |-> create_access_token(sub, Timedelta(ttl), now),
                     decoded |-> FALSE, ok |-> FALSE, err |-> "", email |-> NoSub]
        /\ UNCHANGED <<users, tasks, now, ticks, held, last, session, loop>>

\* Steps 1-3 of get_current_user on the encoded token at the current time.
Decode ==
    /\ codec.token # AbsentToken
    /\ LET data == token_data(codec.token, now) IN
       codec' = [codec EXCEPT !.decoded = TRUE, !.ok = data.ok, !.err = data.err,
                              !.email = data.email]
    /\ UNCHANGED <<users, tasks, now, ticks, held, last, session, loop>>

\* One clock tick passes; an earlier decode result is no longer current.
TickOne ==
    /\ now < MaxCodecTime
    /\ now' = now + 1
    /\ codec' = [codec EXCEPT !.decoded = FALSE, !.ok = FALSE, !.err = "",
                              !.email = NoSub]
    /\ UNCHANGED <<users, tasks, ticks, held, last, session, loop>>

NextCodec ==
    \/ Encode
    \/ Decode
    \/ TickOne

SpecCodec == Init /\ [][NextCodec]_vars

-----------------------------------------------------------------------------
(* One request at a time through get_db, its dependencies and its handler *)

\* HTTPException and SQLAlchemyError derive from Exception; CancelledError
\* derives from BaseException only.
IsException(raised) == raised \in {"HTTPException", "SQLAlchemyError"}

\* Mutant: the session is closed after the yield only when nothing was raised.
GetDbExit_NoFinally(raised) ==
    IF raised = NoException THEN <<"close">>
    ELSE IF IsException(raised) THEN <<"rollback">>
    ELSE <<>>

\* Mutant: an except clause that lets HTTPException pass without rollback.
GetDbExit_HTTPExceptionPasses(raised) ==
    IF raised = "SQLAlchemyError" THEN <<"rollback", "close">> ELSE <<"close">>

\* get_db after its yield: the session calls made when the request returned
\* (finally), raised an Exception (except, then finally) or raised
\* something that is not an Exception (finally only).
GetDbExit(raised) ==
    IF raised = NoException THEN <<"close">>
    ELSE IF IsException(raised) THEN <<"rollback", "close">>
    ELSE <<"close">>

\* Mutant: handlers that never commit.
SessionCalls_NoCommit(op) ==
    CASE op \in {"register_user", "create_task"} -> <<"add", "refresh">>
      [] op = "update_task" -> <<"setattr", "refresh">>
      [] op = "delete_task" -> <<"delete">>
      [] OTHER -> <<>>

\* The session calls a handler makes once its queries and checks have passed.
SessionCalls(op) ==
    CASE op \in {"register_user", "create_task"} -> <<"add", "commit", "refresh">>
      [] op = "update_task" -> <<"setattr", "commit", "refresh">>
      [] op = "delete_task" -> <<"delete", "commit">>
      [] OTHER -> <<>>

\* The handler of a request applied to the request's inputs.
Handle(req) ==
    CASE req.op = "register_user" -> register_user(req.email, req.password, req.salt)
      [] req.op = "login_for_access_token" ->
             login_for_access_token(req.email, req.password)
      [] req.op = "create_task" -> create_task(req.token, req.body)
      [] req.op = "read_tasks" -> read_tasks(req.token, 0, 100)
      [] req.op = "read_task" -> read_task(req.token, req.task_id)
      [] req.op = "update_task" -> update_task(req.token, req.task_id, req.body)
      [] OTHER -> delete_task(req.token, req.task_id)

\* Requests tried through the session scope.
SessionTokens == {AbsentToken} \cup {HandMade(SECRET_KEY, e, FreshExp) : e \in Emails}
SessionBodies == {b \in Bodies : "description" \in DOMAIN b}
Requests ==
    {[NoRequest EXCEPT !.op = "register_user", !.email = e,
                       !.password = "password123", !.salt = 1] : e \in Emails}
    \cup {[NoRequest EXCEPT !.op = "login_for_access_token", !.email = e,
                            !.password = p] : e \in Emails, p \in Passwords}
    \cup {[NoRequest EXCEPT !.op = "create_task", !.token = t, !.body = b] :
             t \in SessionTokens, b \in SessionBodies}
    \cup {[NoRequest EXCEPT !.op = "read_tasks", !.token = t] : t \in SessionTokens}
    \cup {[NoRequest EXCEPT !.op = o, !.token = t, !.task_id = i] :
             o \in {"read_task", "delete_task"}, t \in SessionTokens,
             i \in TaskIdInputs}
    \cup {[NoRequest EXCEPT !.op = "update_task", !.token = t, !.task_id = i,
                            !.body = b] :
             t \in SessionTokens, i \in TaskIdInputs, b \in SessionBodies}

\* The request is over once get_db has made its last call.
AfterExit(todo) == IF todo = <<>> THEN "done" ELSE "exit"

\* An exception leaves the handler or a dependency and is thrown into get_db
\* at its yield.
Raise(exc, resp) ==
    session' = [session EXCEPT !.pc = AfterExit(GetDbExit(exc)), !.raised = exc,
                               !.resp = resp, !.calls = <<>>,
                               !.todo = GetDbExit(exc)]

\* get_db up to its yield: a new session for the request. The dependency is
\* first in every handler's signature, so every request acquires one.
Acquire ==
    /\ session.pc \in {"idle", "done"}
    /\ \E req \in Requests :
          /\ req.op = "create_task" => NextId(tasks) <= MaxTasks
          /\ session' = [NoSession EXCEPT !.pc = "depends", !.req = req,
                                          !.open = TRUE, !.log = <<"open">>,
                                          !.want = [users |-> users, tasks |-> tasks],
                                          !.before = [users |-> users, tasks |-> tasks]]
    /\ UNCHANGED <<users, tasks, now, ticks, held, last, codec, loop>>

\* Depends(get_current_user) of the task handlers; register and login have
\* no further dependency.
ResolveDependencies ==
    /\ session.pc = "depends"
    /\ IF session.req.op \in {"register_user", "login_for_access_token"}
       THEN session' = [session EXCEPT !.pc = "handler"]
       ELSE LET current_user == get_current_user(session.req.token) IN
            IF current_user.ok
            THEN session' = [session EXCEPT !.pc = "handler"]
            ELSE Raise("HTTPException", current_user.resp)
    /\ UNCHANGED <<users, tasks, now, ticks, held, last, codec, loop>>

\* The handler's queries and checks: it raises its HTTPException, or goes on
\* to its session calls with the rows it is about to write.
RunHandler ==
    /\ session.pc = "handler"
    /\ LET o == Handle(session.req) IN
       IF o.resp.status >= HTTP_400_BAD_REQUEST
       THEN Raise("HTTPException", o.resp)
       ELSE session' = [session EXCEPT !.pc = "calls", !.resp = o.resp,
                                       !.want = [users |-> o.users, tasks |-> o.tasks],
                                       !.calls = SessionCalls(session.req.op)]
    /\ UNCHANGED <<users, tasks, now, ticks, held, last, codec, loop>>

\* The next session call of the handler succeeds: add, setattr and delete
\* leave a pending write in the session, commit makes the pending writes
\* the stored rows, refresh reads the row back.
Call ==
    /\ session.pc = "calls"
    /\ session.calls # <<>>
    /\ LET c == Head(session.calls) IN
       /\ session' = [session EXCEPT !.calls = Tail(session.calls),
                                     !.log = Append(session.log, c),
                                     !.dirty = IF c = "commit" THEN FALSE
                                               ELSE IF c = "refresh" THEN session.dirty
                                               ELSE TRUE]
       /\ IF c = "commit" /\ session.dirty
          THEN users' = session.want.users /\ tasks' = session.want.tasks
          ELSE UNCHANGED <<users, tasks>>
    /\ UNCHANGED <<now, ticks, held, last, codec, loop>>

\* The database fails the commit or the refresh: the call raises.
CallFails ==
    /\ session.pc = "calls"
    /\ session.calls # <<>>
    /\ Head(session.calls) \in {"commit", "refresh"}
    /\ Raise("SQLAlchemyError", Response(500, "Internal Server Error", NoHeaders))
    /\ UNCHANGED <<users, tasks, now, ticks, held, last, codec, loop>>

\* The handler returns: get_db resumes after its yield with nothing raised.
Return ==
    /\ session.pc = "calls"
    /\ session.calls = <<>>
    /\ session' = [session EXCEPT !.pc = AfterExit(GetDbExit(NoException)),
                                  !.todo = GetDbExit(NoException)]
    /\ UNCHANGED <<users, tasks, now, ticks, held, last, codec, loop>>

\* The request's task is cancelled while it awaits inside the dependencies
\* or the handler: CancelledError is raised at that await.
Cancel ==
    /\ session.pc \in {"depends", "handler", "calls"}
    /\ Raise("CancelledError", Response(499, "cancelled", NoHeaders))
    /\ UNCHANGED <<users, tasks, now, ticks, held, last, codec, loop>>

\* await session.rollback(): the pending writes are dropped.
Rollback ==
    /\ session.pc = "exit"
    /\ session.todo # <<>>
    /\ Head(session.todo) = "rollback"
    /\ session' = [session EXCEPT !.todo = Tail(session.todo),
                                  !.pc = AfterExit(Tail(session.todo)),
                                  !.log = Append(session.log, "rollback"),
                                  !.dirty = FALSE]
    /\ UNCHANGED <<users, tasks, now, ticks, held, last, codec, loop>>

\* await session.close(): the connection is released; writes still pending
\* are dropped with it.
Close ==
    /\ session.pc = "exit"
    /\ session.todo # <<>>
    /\ Head(session.todo) = "close"
    /\ session' = [session EXCEPT !.todo = Tail(session.todo),
                                  !.pc = AfterExit(Tail(session.todo)),
                                  !.log = Append(session.log, "close"),
                                  !.open = FALSE,
                                  !.dirty = FALSE]
    /\ UNCHANGED <<users, tasks, now, ticks, held, last, codec, loop>>

InitSession == Init /\ tasks = {}

NextSession ==
    \/ Acquire
    \/ ResolveDependencies
    \/ RunHandler
    \/ Call
    \/ CallFails
    \/ Return
    \/ Cancel
    \/ Rollback
    \/ Close

SpecSession == InitSession /\ [][NextSession]_vars

-----------------------------------------------------------------------------
(* Register and login as coroutines on the one event loop *)

\* The loop's thread is not inside any coroutine's synchronous code.
LoopFree == loop.busy = 0

\* A coroutine whose awaited query has been answered runs again as soon as
\* the loop's thread is free.
CanRun(r) == loop.reqs[r].pc = "resume" /\ LoopFree

SetFlight(r, flight) == loop' = [loop EXCEPT !.reqs[r] = flight]

\* The handler is left, by return or by the exception raised: what remains
\* is get_db after its yield.
Leave(f, status, raised) ==
    [f EXCEPT !.pc = IF GetDbExit(raised) = <<>> THEN "done" ELSE "calls",
              !.status = status, !.raised = raised,
              !.todo = GetDbExit(raised)]

\* Mutant: a users table without the unique index on email.
UniqueViolation_NoConstraint(email) == FALSE

\* users.email is unique: an insert of an email some stored row has is
\* refused with IntegrityError.
UniqueViolation(email) == UserByEmail(email) # NoUser

\* A request arrives, get_db opens its session and its handler runs up to
\* the await of its query:
\* await db.execute(select(User).where(User.email == email)).
Start ==
    \E r \in Slots, op \in {"register_user", "login_for_access_token"},
       email \in Emails, password \in Passwords :
        /\ loop.reqs[r].pc = "idle"
        /\ LoopFree
        /\ op = "register_user" => password = "password123"
        /\ SetFlight(r, [NoFlight EXCEPT !.pc = "execute", !.op = op,
                                         !.email = email, !.password = password,
                                         !.log = <<"open">>])
        /\ UNCHANGED <<users, tasks, now, ticks, held, last, codec, session>>

\* The database answers the query with the user stored at that time.
QueryDone ==
    \E r \in Slots :
        /\ loop.reqs[r].pc = "execute"
        /\ SetFlight(r, [loop.reqs[r] EXCEPT !.pc = "resume",
                                             !.found = UserByEmail(loop.reqs[r].email)])
        /\ UNCHANGED <<users, tasks, now, ticks, held, last, codec, session>>

\* The handler runs on: it raises (400 for a taken email, 401 for an unknown
\* one), or it calls get_password_hash / verify_password, a plain call made
\* on the loop's thread, which it occupies until the call returns.
Resume ==
    \E r \in Slots :
        LET f == loop.reqs[r] IN
        /\ CanRun(r)
        /\ IF f.op = "register_user" /\ f.found # NoUser
           THEN SetFlight(r, Leave(f, HTTP_400_BAD_REQUEST, "HTTPException"))
           ELSE IF f.op = "login_for_access_token" /\ f.found = NoUser
           THEN SetFlight(r, Leave(f, HTTP_401_UNAUTHORIZED, "HTTPException"))
           ELSE loop' = [loop EXCEPT !.busy = r, !.reqs[r].pc = "hashing"]
        /\ UNCHANGED <<users, tasks, now, ticks, held, last, codec, session>>

\* The hash computation returns: login answers or raises its 401, register
\* adds the user to its session and awaits its commit.
HashDone ==
    \E r \in Slots :
        LET f == loop.reqs[r] IN
        /\ f.pc = "hashing"
        /\ loop.busy = r
        /\ loop' = [loop EXCEPT
              !.busy = 0,
              !.reqs[r] =
                  IF f.op = "register_user"
                  THEN [f EXCEPT !.pc = "commit", !.log = Append(f.log, "add"),
                                 !.dirty = TRUE]
                  ELSE IF verify_password(f.password, f.found.hashed_password)
                  THEN Leave(f, HTTP_200_OK, NoException)
                  ELSE Leave(f, HTTP_401_UNAUTHORIZED, "HTTPException")]
        /\ UNCHANGED <<users, tasks, now, ticks, held, last, codec, session>>

\* The database executes register's commit: the insert is refused when the
\* email has been taken meanwhile (the column is unique) and the commit
\* raises; otherwise the row is stored and the handler goes on to its
\* refresh and its return.
CommitDone ==
    \E r \in Slots :
        LET f == loop.reqs[r] IN
        /\ f.pc = "commit"
        /\ IF UniqueViolation(f.email)
           THEN /\ SetFlight(r, Leave(f, 500, "SQLAlchemyError"))
                /\ UNCHANGED users
           ELSE /\ users' = users \cup
                       {[id |-> NextId(users), email |-> f.email,
                         hashed_password |-> get_password_hash(f.password, 1)]}
                /\ SetFlight(r, [Leave(f, HTTP_201_CREATED, NoException) EXCEPT
                                     !.log = Append(f.log, "commit"),
                                     !.dirty = FALSE,
                                     !.todo = <<"refresh">> \o GetDbExit(NoException)])
        /\ UNCHANGED <<tasks, now, ticks, held, last, codec, session>>

\* The next awaited call on the request's session completes: the handler's
\* refresh, then get_db's rollback and close, which drop a pending write.
SessionCall ==
    \E r \in Slots :
        LET f == loop.reqs[r] IN
        /\ f.pc = "calls"
        /\ f.todo # <<>>
        /\ SetFlight(r, [f EXCEPT
              !.todo = Tail(f.todo),
              !.pc = IF Tail(f.todo) = <<>> THEN "done" ELSE "calls",
              !.log = Append(f.log, Head(f.todo)),
              !.dirty = IF Head(f.todo) = "refresh" THEN f.dirty ELSE FALSE])
        /\ UNCHANGED <<users, tasks, now, ticks, held, last, codec, session>>

\* The response has been sent.
Finish ==
    \E r \in Slots :
        /\ loop.reqs[r].pc = "done"
        /\ SetFlight(r, NoFlight)
        /\ UNCHANGED <<users, tasks, now, ticks, held, last, codec, session>>

NextLoop ==
    \/ Start
    \/ QueryDone
    \/ Resume
    \/ HashDone
    \/ CommitDone
    \/ SessionCall
    \/ Finish

SpecLoop == InitSession /\ [][NextLoop]_vars

-----------------------------------------------------------------------------
(* Properties *)

ProtectedOps == {"create_task", "read_tasks", "read_task", "update_task", "delete_task"}

\* An id no row of the tasks table has.
AbsentId == NextId(tasks)

\* What the client can observe of an outcome, and what it left in the store.
Signal(o) == [resp |-> o.resp, rows |-> o.rows, token |-> o.token]
Untouched(o) == o.tasks = tasks /\ o.users = users

\* Tasks owned by a registered user other than the one with id uid.
TasksOfOthers(uid) ==
    {t \in tasks : t.owner_id # uid /\ \E a \in users : a.id = t.owner_id}

\* C1: in every reachable state, for every user B a token resolves to and
\* every task owned by another user A, B's read_task, update_task and
\* delete_task on that task's id give 404 "Task not found", the very signal
\* the same operation gives on an id that does not exist, and leave the
\* tables as they are.
C1_OwnershipIsolation ==
    \A token \in TokenInputs :
        LET B == get_current_user(token) IN
        B.ok =>
            \A t \in TasksOfOthers(B.user.id) :
                /\ LET o == read_task(token, t.id) IN
                   /\ o.resp = task_not_found
                   /\ Signal(o) = Signal(read_task(token, AbsentId))
                   /\ Untouched(o)
                /\ LET o == delete_task(token, t.id) IN
                   /\ Signal(o) = Signal(delete_task(token, AbsentId))
                   /\ o.resp = task_not_found
                   /\ Untouched(o)
                /\ \A body \in Bodies :
                       LET o == update_task(token, t.id, body) IN
                       /\ o.resp = task_not_found
                       /\ Signal(o) = Signal(update_task(token, AbsentId, body))
                       /\ Untouched(o)

\* C1 witness: a user's update_task on a task that exists and belongs to
\* another registered user was just answered 404.
C1_Witness ==
    /\ last.op = "update_task"
    /\ last.resp = task_not_found
    /\ last.uid # 0
    /\ \E t \in TasksOfOthers(last.uid) : t.id = last.task_id

TaskIds(rows) == {t.id : t \in rows}

\* C2: in every step, a task that stays in the table keeps its owner_id, and
\* a task that enters the table was created by create_task and is owned by
\* the user the request's token resolved to, whatever the body said.
C2_OwnerImmutable ==
    [][ /\ \A t \in tasks : \A t2 \in tasks' :
              t2.id = t.id => t2.owner_id = t.owner_id
        /\ \A t2 \in tasks' :
              t2.id \notin TaskIds(tasks) =>
                  /\ last'.op = "create_task"
                  /\ last'.uid # 0
                  /\ t2.owner_id = last'.uid
      ]_vars

\* C2 witness: user 2 has just created a task from the body that names
\* owner_id 1, and the stored task is owned by user 2.
C2_Witness ==
    /\ last.op = "create_task"
    /\ last.uid = 2
    /\ \E t \in tasks :
          t.id = last.task_id /\ t.title = "t2" /\ t.owner_id = 2

\* The user whose email is the token's subject.
SubjectOf(token) == {u \in users : u.email = token.sub}

\* C3: every task read_tasks (any skip, any limit) or read_task returns is
\* a stored task whose owner_id is the id of the user named by the token.
C3_OwnDataOnly ==
    \A token \in TokenInputs :
        /\ \A skip \in SkipInputs, limit \in LimitInputs :
              LET o == read_tasks(token, skip, limit) IN
              \A i \in 1 .. Len(o.rows) :
                  /\ o.rows[i] \in tasks
                  /\ \E u \in SubjectOf(token) : o.rows[i].owner_id = u.id
        /\ \A task_id \in TaskIdInputs :
              LET o == read_task(token, task_id) IN
              \A i \in 1 .. Len(o.rows) :
                  /\ o.rows[i] \in tasks
                  /\ \E u \in SubjectOf(token) : o.rows[i].owner_id = u.id

\* C3 witness: read_tasks has just returned rows to a user while a task of
\* another registered user is in the table.
C3_Witness ==
    /\ last.op = "read_tasks"
    /\ last.count >= 1
    /\ TasksOfOthers(last.uid) # {}

\* C4: when get_current_user fails for the token, none of the five task
\* handlers runs: each request is answered with the resolver's failure and
\* leaves users and tasks unchanged.
C4_NoBodyWithoutIdentity ==
    \A token \in TokenInputs :
        LET cu == get_current_user(token) IN
        ~cu.ok =>
            /\ \A body \in Bodies :
                  LET o == create_task(token, body) IN
                  ~o.ran /\ Untouched(o) /\ o.resp = cu.resp /\ o.rows = <<>>
            /\ \A skip \in SkipInputs, limit \in LimitInputs :
                  LET o == read_tasks(token, skip, limit) IN
                  ~o.ran /\ Untouched(o) /\ o.resp = cu.resp /\ o.rows = <<>>
            /\ \A task_id \in TaskIdInputs :
                  /\ LET o == read_task(token, task_id) IN
                     ~o.ran /\ Untouched(o) /\ o.resp = cu.resp /\ o.rows = <<>>
                  /\ LET o == delete_task(token, task_id) IN
                     ~o.ran /\ Untouched(o) /\ o.resp = cu.resp /\ o.rows = <<>>
                  /\ \A body \in Bodies :
                        LET o == update_task(token, task_id, body) IN
                        ~o.ran /\ Untouched(o) /\ o.resp = cu.resp /\ o.rows = <<>>

\* C4 witness: create_task was just refused for a well-signed, unexpired
\* token whose subject is not registered, while a user exists.
C4_Witness ==
    /\ last.op = "create_task"
    /\ last.why = "UnknownSubject"
    /\ ~last.ran
    /\ last.resp.status = HTTP_401_UNAUTHORIZED
    /\ users # {}

\* The four ways a presented token fails, read off the token and the store.
IsMalformed(token) == token.kind = "garbage" \/ (token.kind = "jwt" /\ token.key # SECRET_KEY)
IsExpired(token) ==
    token.kind = "jwt" /\ token.key = SECRET_KEY /\ token.exp < now \div TicksPerSecond
IsSubjectless(token) == token.kind = "jwt" /\ token.sub = NoSub
IsUnknownSubject(token) == token.kind = "jwt" /\ SubjectOf(token) = {}
FailsResolution(token) ==
    IsMalformed(token) \/ IsExpired(token) \/ IsSubjectless(token) \/ IsUnknownSubject(token)

\* C5: an expired token, a malformed or wrongly signed one, one without a
\* sub claim and one whose subject is not stored all get one and the same
\* response: 401 with header WWW-Authenticate: Bearer and the same detail.
C5_OneFailureSignal ==
    \A t1 \in TokenInputs, t2 \in TokenInputs :
        FailsResolution(t1) /\ FailsResolution(t2) =>
            LET cu1 == get_current_user(t1) IN
            /\ ~cu1.ok
            /\ cu1.resp = get_current_user(t2).resp
            /\ cu1.resp.status = HTTP_401_UNAUTHORIZED
            /\ cu1.resp.hdr = BearerHeader

\* C5 witness: a request was just refused because the token's subject is
\* not stored, with the response an expired token gets in this state.
C5_Witness ==
    /\ last.op \in ProtectedOps
    /\ last.why = "UnknownSubject"
    /\ last.resp = get_current_user(HandMade(SECRET_KEY, "alice@x", PastExp)).resp
    /\ get_current_user(HandMade(SECRET_KEY, "alice@x", PastExp)).why = "Expired"

\* Every response a protected operation can give to a request with the token.
ProtectedResponses(token) ==
    {create_task(token, body).resp : body \in Bodies}
    \cup {read_tasks(token, skip, limit).resp : skip \in SkipInputs, limit \in LimitInputs}
    \cup {read_task(token, task_id).resp : task_id \in TaskIdInputs}
    \cup {update_task(token, task_id, body).resp : task_id \in TaskIdInputs, body \in Bodies}
    \cup {delete_task(token, task_id).resp : task_id \in TaskIdInputs}

\* Every response login gives when it issues no token.
LoginFailures ==
    {login_for_access_token(e, p).resp : e \in Emails, p \in Passwords}
    \ {Success(HTTP_200_OK)}

\* A token is unusable: there is none, or it fails one of the resolver's steps.
Unusable(token) == token.kind = "absent" \/ FailsResolution(token)

\* C6 as stated: a protected operation refused for a missing or failing
\* token is answered with the very response of a failed login, message
\* included.
C6_SameMessageAsLogin ==
    (last.op \in ProtectedOps /\ last.resp.status = HTTP_401_UNAUTHORIZED) =>
        \A l \in LoginFailures : last.resp = l

\* C6 amended: a protected operation refused for a missing or failing token
\* answers with the status (401) and the header (WWW-Authenticate: Bearer)
\* of a failed login; the detail text is its own, not login's.
C6_SameStatusAndHeaderAsLogin ==
    /\ LoginFailures # {}
    /\ \A token \in TokenInputs :
          Unusable(token) =>
              \A r \in ProtectedResponses(token), l \in LoginFailures :
                  /\ r.status = l.status
                  /\ r.hdr = l.hdr
                  /\ r.status = HTTP_401_UNAUTHORIZED
                  /\ r.hdr = BearerHeader
                  /\ r.detail # l.detail

\* C6 witness: a protected operation was just refused for a failing token,
\* with login's status and header and another detail than login's.
C6_Witness ==
    /\ last.op \in ProtectedOps
    /\ last.why = "Expired"
    /\ \E l \in LoginFailures :
          /\ last.resp.status = l.status
          /\ last.resp.hdr = l.hdr
          /\ last.resp.detail # l.detail

\* The hashes get_password_hash can produce for a password.
HashesOf(password) == {Bcrypt(password, s) : s \in Salts}

\* The stored user with this email knows this password.
Registered(email, password) ==
    \E u \in users : u.email = email /\ u.hashed_password \in HashesOf(password)

NoSuchUser(email) == \A u \in users : u.email # email

\* C7: a login for an email no user has and a login for a stored email with
\* a password that is not that user's get the identical response, 401
\* "Incorrect email or password" with WWW-Authenticate: Bearer, and no token.
C7_LoginFailuresAlike ==
    \A e1 \in Emails, e2 \in Emails, p1 \in Passwords, p2 \in Passwords :
        (NoSuchUser(e1) /\ ~NoSuchUser(e2) /\ ~Registered(e2, p2)) =>
            LET o1 == login_for_access_token(e1, p1)
                o2 == login_for_access_token(e2, p2)
            IN /\ Signal(o1) = Signal(o2)
               /\ o1.resp = Response(HTTP_401_UNAUTHORIZED,
                                     "Incorrect email or password", BearerHeader)
               /\ o1.token = AbsentToken /\ o2.token = AbsentToken
               /\ o1.token_type = "" /\ o2.token_type = ""
               /\ Untouched(o1) /\ Untouched(o2)

\* C7 witness: a login with a stored email and a wrong password has just
\* failed while the other email is still unregistered.
C7_Witness ==
    /\ last.op = "login_for_access_token"
    /\ last.why = "WrongPassword"
    /\ last.token = AbsentToken
    /\ \E e \in Emails : NoSuchUser(e)

\* C8: login answers 200 exactly when a stored user has the submitted email
\* and the submitted password is the one its hash was made from; the body is
\* then a bearer token signed with the secret, whose subject is that email
\* and whose expiry is the current time plus the default lifetime.
C8_LoginIffVerified ==
    \A e \in Emails, p \in Passwords :
        LET o == login_for_access_token(e, p) IN
        /\ (o.resp.status = HTTP_200_OK) <=> Registered(e, p)
        /\ (o.token # AbsentToken) <=> Registered(e, p)
        /\ Registered(e, p) =>
              /\ o.resp = Success(HTTP_200_OK)
              /\ o.token_type = "bearer"
              /\ o.token = [kind |-> "jwt", key |-> SECRET_KEY, sub |-> e,
                            exp |-> (now + Minutes(ACCESS_TOKEN_EXPIRE_MINUTES))
                                        \div TicksPerSecond]
              /\ \E u \in users : u.email = e /\ u.id = o.uid

\* C8 witness: bob has just logged in, some time after the start, and holds
\* a token for his email that expires a default lifetime from now.
C8_Witness ==
    /\ last.op = "login_for_access_token"
    /\ last.resp.status = HTTP_200_OK
    /\ now > 0
    /\ last.token.sub = "bob@x"
    /\ last.token.exp = (now + Minutes(ACCESS_TOKEN_EXPIRE_MINUTES)) \div TicksPerSecond
    /\ Cardinality(users) = 2

\* C9: whenever get_current_user accepts a token, the user it returns is the
\* stored user whose email is the token's sub; the token a login gave to a
\* user resolves, whenever it resolves, to that same user.
C9_ResolvesToSubject ==
    /\ \A token \in TokenInputs :
          LET cu == get_current_user(token) IN
          cu.ok => /\ cu.user \in users
                   /\ cu.user.email = token.sub
    /\ held.token # AbsentToken =>
          LET cu == get_current_user(held.token) IN
          cu.ok => /\ cu.user.id = held.uid
                   /\ cu.user.email = held.token.sub

\* C9 witness: with two users stored and time gone by since the login, a
\* protected operation has just run for the user the held token was given to.
C9_Witness ==
    /\ held.uid # 0
    /\ Cardinality(users) = 2
    /\ now > 0
    /\ get_current_user(held.token).ok
    /\ last.op = "read_tasks"
    /\ last.ran
    /\ last.uid = held.uid

\* C10: a token from create_access_token(subject, ttl) decodes as valid with
\* that subject at every time t after encoding with 0 <= t < ttl.
C10_RoundTrip ==
    (codec.token # AbsentToken /\ 0 <= now - codec.at /\ now - codec.at < codec.ttl) =>
        /\ token_data(codec.token, now) = [ok |-> TRUE, err |-> "", email |-> codec.sub]
        /\ codec.decoded => (codec.ok /\ codec.email = codec.sub)

\* C10 witness: a token encoded with a ttl of three ticks has just been
\* decoded as valid two ticks later, in another clock second.
C10_Witness ==
    /\ codec.decoded
    /\ codec.ok
    /\ codec.email = codec.sub
    /\ codec.ttl = 3
    /\ now - codec.at = 2

\* C11 as stated: a token issued by create_access_token with an
\* expires_delta of zero is rejected as Expired at the issuance instant and
\* at every later time.
C11_ZeroTtlExpiredImmediately ==
    (codec.token # AbsentToken /\ codec.ttl = 0 /\ now >= codec.at) =>
        /\ ~token_data(codec.token, now).ok
        /\ token_data(codec.token, now).err = "Expired"
        /\ codec.decoded => ~codec.ok

\* The user a login-issued token names is stored (users are never removed).
Accepted(token) == get_current_user(token).ok

\* C12: the token a client got from login carries exp = issuance time plus
\* ACCESS_TOKEN_EXPIRE_MINUTES, and, whatever registrations, logins, task
\* requests and clock ticks came in between, it is accepted exactly while
\* the clock second is not past that exp, for the user it was issued to;
\* no task request changes the users table a token is resolved against.
C12_LifetimeFixedAtIssuance ==
    /\ held.token # AbsentToken =>
          /\ held.token.exp =
                 (held.at + Minutes(ACCESS_TOKEN_EXPIRE_MINUTES)) \div TicksPerSecond
          /\ Accepted(held.token) <=> (now \div TicksPerSecond) <= held.token.exp
          /\ Accepted(held.token) => get_current_user(held.token).user.id = held.uid
    /\ \A token \in {held.token, AbsentToken} :
          /\ \A body \in Bodies : create_task(token, body).users = users
          /\ \A skip \in SkipInputs, limit \in LimitInputs :
                 read_tasks(token, skip, limit).users = users
          /\ \A task_id \in TaskIdInputs :
                 /\ read_task(token, task_id).users = users
                 /\ delete_task(token, task_id).users = users
                 /\ \A body \in Bodies : update_task(token, task_id, body).users = users

\* C12 witness: some time after a client kept its token, another user has
\* just logged in and been given a token of their own, and the kept token
\* is still accepted.
C12_Witness ==
    /\ held.token # AbsentToken
    /\ now > held.at
    /\ last.op = "login_for_access_token"
    /\ last.token # AbsentToken
    /\ last.uid # held.uid
    /\ Accepted(held.token)

\* How often a call appears in a session's log.
Count(log, call) == Cardinality({i \in 1 .. Len(log) : log[i] = call})

\* The last two calls of a log are rollback, then close.
EndsRollbackClose(log) ==
    /\ Len(log) >= 3
    /\ log[Len(log) - 1] = "rollback"
    /\ log[Len(log)] = "close"

\* The stored rows are those of the last commit the request made, or those
\* it found when it made none.
NothingUncommittedVisible ==
    IF Count(session.log, "commit") > 0
    THEN users = session.want.users /\ tasks = session.want.tasks
    ELSE users = session.before.users /\ tasks = session.before.tasks

\* C13: a session acquired through get_db is closed at most once at any
\* time, is open exactly until that close, and every request that has ended
\* (by return, by an HTTPException of a dependency or the handler, by a
\* database error or by cancellation) closed its session exactly once, as
\* its last call.
C13_ClosedExactlyOnce ==
    /\ Count(session.log, "close") <= 1
    /\ session.open <=> (session.log # <<>> /\ Count(session.log, "close") = 0)
    /\ session.pc = "done" =>
          /\ Count(session.log, "open") = 1
          /\ Count(session.log, "close") = 1
          /\ session.log[Len(session.log)] = "close"
          /\ ~session.open

\* C13 witness: a request whose commit failed with a database error has
\* ended with its session closed.
C13_Witness ==
    /\ session.pc = "done"
    /\ session.raised = "SQLAlchemyError"
    /\ Count(session.log, "close") = 1
    /\ ~session.open

\* C14: when the handler returns, no write is pending on the session any
\* more, and a request that ended normally leaves in the store exactly the
\* rows its handler meant to write, committed before the session was closed.
C14_WritesCommittedOnReturn ==
    /\ (session.pc = "exit" /\ session.raised = NoException) => ~session.dirty
    /\ (session.pc = "done" /\ session.raised = NoException) =>
          /\ users = session.want.users
          /\ tasks = session.want.tasks
          /\ SessionCalls(session.req.op) # <<>> =>
                \E i \in 1 .. Len(session.log) :
                    /\ session.log[i] = "commit"
                    /\ \A j \in 1 .. i : session.log[j] # "close"

\* C14 witness: update_task has returned and its request has ended with the
\* task changed in the store.
C14_Witness ==
    /\ session.pc = "done"
    /\ session.raised = NoException
    /\ session.req.op = "update_task"
    /\ tasks # session.before.tasks
    /\ tasks = session.want.tasks

\* C15: a request that ended with an exception, whether the 401 of
\* get_current_user or of login, the 404 of an ownership check, the 400 of
\* register or a database error, had rollback called and then close as its
\* last two session calls, and the store holds nothing the request had not
\* committed when it failed.
C15_FailureRollsBackThenCloses ==
    /\ (session.pc = "exit" /\ IsException(session.raised)
          /\ Count(session.log, "rollback") = 0) =>
             session.todo = <<"rollback", "close">>
    /\ (session.pc = "done" /\ IsException(session.raised)) =>
          /\ EndsRollbackClose(session.log)
          /\ Count(session.log, "rollback") = 1
          /\ ~session.dirty
          /\ NothingUncommittedVisible

\* C15 witness: a request refused with 404 by the ownership check of
\* delete_task on another user's task has ended after rollback, then close.
C15_Witness ==
    /\ session.pc = "done"
    /\ session.raised = "HTTPException"
    /\ session.req.op = "delete_task"
    /\ session.resp = task_not_found
    /\ \E t \in tasks : t.id = session.req.task_id
    /\ EndsRollbackClose(session.log)

\* C16 as stated: a request cancelled while it holds a session ends with
\* rollback, then close, as its last session calls, and with nothing
\* uncommitted in the store.
C16_CancelRollsBackThenCloses ==
    (session.pc = "done" /\ session.raised = "CancelledError") =>
        /\ EndsRollbackClose(session.log)
        /\ NothingUncommittedVisible

\* C18 as stated: while the hash or verify computation of one request is
\* in progress, an unrelated request in flight (for another email) whose
\* awaited result has arrived can run.
C18_HashOffTheLoop ==
    \A r \in Slots, q \in Slots :
        (r # q /\ loop.reqs[r].pc = "hashing" /\ loop.reqs[q].pc = "resume"
             /\ loop.reqs[q].email # loop.reqs[r].email) =>
            CanRun(q)

\* login with these credentials is answered with a token.
LoginOk(email, password) ==
    login_for_access_token(email, password).token # AbsentToken

C20_RegisterThenLogin ==
    [][ /\ \A e \in Emails, p \in Passwords :
              (/\ last'.op = "register_user"
               /\ last'.resp.status = HTTP_201_CREATED
               /\ last'.email = e
               /\ last'.password = p) =>
                  \A p2 \in Passwords :
                      /\ LoginOk(e, p2)' <=> (p2 = p)
                      /\ p2 # p =>
                            login_for_access_token(e, p2)'.resp = login_exception
        /\ \A e \in Emails :
              ~NoSuchUser(e) =>
                  \A p2 \in Passwords :
                      /\ LoginOk(e, p2)' <=> LoginOk(e, p2)
                      /\ ~LoginOk(e, p2) =>
                            login_for_access_token(e, p2)'.resp = login_exception
      ]_vars

\* C20 witness: after alice registered with "wrongpass" as her password and
\* time went by, a login with that password has just been given a token and
\* a login with "password123" would be refused.
C20_Witness ==
    /\ last.op = "login_for_access_token"
    /\ last.email = "alice@x"
    /\ last.password = "wrongpass"
    /\ last.token # AbsentToken
    /\ now > 0
    /\ ~LoginOk("alice@x", "password123")

\* The stored users with the email.
StoredWith(email) == {u \in users : u.email = email}

\* A register_user request that passed the existence check (its query found
\* no user) and whose handler did not end with 201.
LostRegister(f) ==
    /\ f.op = "register_user"
    /\ f.found = NoUser
    /\ f.pc \in {"calls", "done"}
    /\ f.status # HTTP_201_CREATED

\* C21: however register_user requests interleave, no email is stored
\* twice; a request that passed the existence check and lost the commit
\* was refused by the database, committed nothing, is on get_db's rollback
\* path (rollback, then close, are its remaining calls) and, once ended,
\* has rollback and close as its last two session calls, closed once, with
\* no write pending.
C21_OneWinnerLoserRolledBack ==
    /\ \A e \in Emails : Cardinality(StoredWith(e)) <= 1
    /\ \A r \in Slots :
          LET f == loop.reqs[r] IN
          LostRegister(f) =>
              /\ f.raised = "SQLAlchemyError"
              /\ Count(f.log, "commit") = 0
              /\ Cardinality(StoredWith(f.email)) = 1
              /\ EndsRollbackClose(f.log \o f.todo)
              /\ Count(f.log \o f.todo, "close") = 1
              /\ f.pc = "done" => (f.todo = <<>> /\ ~f.dirty)

\* C21 witness: two registrations for one email both found no user; one
\* was answered 201, the other has ended after rollback, then close, and
\* one user with that email is stored.
C21_Witness ==
    \E r \in Slots, q \in Slots :
        /\ r # q
        /\ loop.reqs[r].op = "register_user"
        /\ loop.reqs[q].op = "register_user"
        /\ loop.reqs[r].email = loop.reqs[q].email
        /\ loop.reqs[r].found = NoUser
        /\ loop.reqs[q].found = NoUser
        /\ loop.reqs[q].status = HTTP_201_CREATED
        /\ loop.reqs[r].pc = "done"
        /\ loop.reqs[r].status = 500
        /\ EndsRollbackClose(loop.reqs[r].log)
        /\ Cardinality(StoredWith(loop.reqs[r].email)) = 1

\* C22: whenever update_task answers 200, the addressed task is one the
\* token's user owns; the stored task after the update has the same id,
\* owner_id and completed flag, the body's title, and the body's description
\* when the body has one (the old description otherwise); every other task
\* and every user is as before; and the response is that stored task.
C22_UpdateChangesTitleAndDescriptionOnly ==
    \A token \in GoodTokens, task_id \in TaskIdInputs, body \in Bodies :
        LET o == update_task(token, task_id, body) IN
        o.resp.status = HTTP_200_OK =>
            /\ Len(o.rows) = 1
            /\ o.rows[1] \in o.tasks
            /\ o.users = users
            /\ \E t \in tasks :
                  /\ t.id = task_id
                  /\ t.owner_id = o.uid
                  /\ o.tasks \ {o.rows[1]} = tasks \ {t}
                  /\ o.rows[1].id = t.id
                  /\ o.rows[1].owner_id = t.owner_id
                  /\ o.rows[1].completed = t.completed
                  /\ o.rows[1].title = body.title
                  /\ o.rows[1].description =
                         IF "description" \in DOMAIN body THEN body.description
                         ELSE t.description

\* C22 witness: an update_task request has ended normally and changed a
\* stored task while another task and two users are stored.
C22_Witness ==
    /\ session.pc = "done"
    /\ session.raised = NoException
    /\ session.req.op = "update_task"
    /\ "owner_id" \in DOMAIN session.req.body
    /\ tasks # session.before.tasks
    /\ Cardinality(tasks) >= 2
    /\ Cardinality(users) = 2
    /\ \E t \in tasks : t.id = session.req.task_id /\ t.owner_id = 2

\* The delete_task request being served has committed.
DeleteCommitted ==
    /\ session.req.op = "delete_task"
    /\ Count(session.log, "commit") = 1

\* C23: once a delete_task request has committed, and until the next
\* request, exactly the addressed task, one its user owned, is gone from
\* the store, every other task and every user is as the request found
\* them, and read_task, update_task (any body) and delete_task on that id
\* with the same token answer 404 "Task not found".
C23_DeleteRemovesExactlyOne ==
    DeleteCommitted =>
        LET token == session.req.token
            task_id == session.req.task_id
        IN /\ users = session.before.users
           /\ \E t \in session.before.tasks :
                 /\ t.id = task_id
                 /\ \E u \in SubjectOf(token) : t.owner_id = u.id
                 /\ t \notin tasks
                 /\ tasks = session.before.tasks \ {t}
           /\ read_task(token, task_id).resp = task_not_found
           /\ delete_task(token, task_id).resp = task_not_found
           /\ \A body \in Bodies :
                 update_task(token, task_id, body).resp = task_not_found

\* C23 witness: a delete_task request has ended normally and removed its
\* user's task; a task of another user is still stored.
C23_Witness ==
    /\ DeleteCommitted
    /\ session.pc = "done"
    /\ session.raised = NoException
    /\ Cardinality(session.before.tasks) = Cardinality(tasks) + 1
    /\ Cardinality(users) = 2
    /\ \E u \in SubjectOf(session.req.token) :
          \E t \in tasks : t.owner_id # u.id

\* C24: in every reachable state every task created through create_task,
\* that is every stored task but the row that was there before the API
\* ran, has completed = FALSE, whatever create_task, update_task and
\* delete_task requests were made and whatever their bodies named.
C24_NeverCompleted ==
    /\ \A t \in tasks : t.completed => t = LegacyTask
    /\ (last.op = "create_task" /\ last.ran) =>
          \E t \in tasks :
              t.id = last.task_id /\ t.owner_id = last.uid /\ ~t.completed

\* C24 witness: update_task has just written the body that names
\* completed = TRUE (the one whose title is "t2") to a task, and the task
\* is stored with completed = FALSE.
C24_Witness ==
    /\ last.op = "update_task"
    /\ last.resp.status = HTTP_200_OK
    /\ \E t \in tasks :
          /\ t.id = last.task_id
          /\ t.title = "t2"
          /\ t.owner_id = last.uid
          /\ ~t.completed

\* The stored tasks whose owner_id is NULL.
Unowned == {t \in tasks : t.owner_id = NoOwner}

Rows(o) == {o.rows[i] : i \in 1 .. Len(o.rows)}

\* C25: in every reachable state that holds a task without an owner, for
\* every token a client can present: no read_tasks (any skip, any limit)
\* and no read_task returns the task; read_task, update_task and
\* delete_task on its id answer a resolved user 404 "Task not found"; and
\* every create_task, update_task and delete_task request, on any id and
\* with any body, leaves the task in the table as it is.
C25_UnownedInaccessible ==
    Unowned # {} =>
        \A token \in TokenInputs :
            /\ \A skip \in SkipInputs, limit \in LimitInputs :
                  Rows(read_tasks(token, skip, limit)) \cap Unowned = {}
            /\ \A body \in Bodies : Unowned \subseteq create_task(token, body).tasks
            /\ \A task_id \in TaskIdInputs :
                  /\ Rows(read_task(token, task_id)) \cap Unowned = {}
                  /\ Unowned \subseteq delete_task(token, task_id).tasks
                  /\ \A body \in Bodies :
                        LET o == update_task(token, task_id, body) IN
                        /\ Unowned \subseteq o.tasks
                        /\ Rows(o) \cap Unowned = {}
            /\ get_current_user(token).ok =>
                  \A t \in Unowned :
                      /\ read_task(token, t.id).resp = task_not_found
                      /\ delete_task(token, t.id).resp = task_not_found
                      /\ \A body \in Bodies :
                            update_task(token, t.id, body).resp = task_not_found

\* C25 witness: a user who owns a task has just been answered 404 by
\* delete_task on the id of the stored task without an owner.
C25_Witness ==
    /\ last.op = "delete_task"
    /\ last.resp = task_not_found
    /\ last.uid # 0
    /\ \E t \in Unowned : t.id = last.task_id
    /\ \E t \in tasks : t.owner_id = last.uid

====
